---- MODULE Spec2Model ----
(***************************************************************************)
(* Model of the SF-311 incremental synchronisation scripts:                *)
(*   src/scripts/extract_data.py  sample_api_data  (paginated extractor)   *)
(*   src/scripts/insert_data.py   convert_value, insert_data (upsert),     *)
(*                                main (watermarks, window, extract, load) *)
(*   src/insert_data.py           insert_data (ON CONFLICT DO NOTHING)     *)
(*                                                                         *)
(* A record carries four of the table's columns: the key                   *)
(* service_request_id, the two timestamp columns the watermarks read, and  *)
(* status_description, which stands for every other non-key column (all    *)
(* of them are handled by the same convert_value / EXCLUDED.<col> code).   *)
(***************************************************************************)
EXTENDS Integers, Sequences, FiniteSets

VARIABLES
    store,          \* committed rows of bronze.sf_311_calls
    clock,          \* the database server's transaction clock
    data,           \* the batch the caller holds (main's data)
    call,           \* the last insert_data call: policy, now, outcome
    before,         \* store content just before the last insert_data call
    repeated,       \* the last call repeated the previous committed call;
                    \* of a run: it repeats the run that has just completed
    remote,         \* the records of the remote dataset
    pc,             \* where main is: idle, fetch, load, done
    conn,           \* the run's store connection: none, open, closed
    closes,         \* calls of conn.close() in the run
    argv,           \* the command line of the run: start date, valid or not
    watermarks,     \* existing_min and max_updated, as main read them
    plan,           \* fetch_type and the where clause of the run
    offset,         \* sample_api_data's offset
    all_results,    \* sample_api_data's accumulated rows
    fetched,        \* offsets of the pages fetched, in order
    failed,         \* a page request of this run has raised
    result,         \* how the last run of main ended
    nruns,          \* runs started
    nchanges        \* changes made to the remote dataset

loadvars == <<store, clock, data, call, before, repeated>>

runvars == <<remote, pc, conn, closes, argv, watermarks, plan, offset, all_results,
             fetched, failed, result, nruns, nchanges>>

vars == <<store, clock, data, call, before, repeated, remote, pc, conn,
          closes, argv, watermarks, plan, offset, all_results, fetched, failed, result,
          nruns, nchanges>>

----------------------------------------------------------------------------
(* Bounds of the model *)

\* longest batch handed to insert_data
MaxBatch == 3
\* the transaction clock stops here
MaxClock == 3
\* rows per INSERT statement built by psycopg2's execute_values (its
\* page_size parameter, 100 by default, scaled down)
ExecPageSize == 2
\* rows per page of the remote API (limit = 1000 in sample_api_data, scaled
\* down)
limit == 2
\* timestamps are the texts coded 1..MaxTime
MaxTime == 2
\* runs of main in one behaviour
MaxRuns == 2
\* changes of the remote dataset in one behaviour
MaxChanges == 2

----------------------------------------------------------------------------
(* Values.  A Python value of a raw record and an SQL value of a column    *)
(* are records [k, v]: k is the type tag, v a code of the content.  The    *)
(* text of a timestamp is coded by a number whose order is the lexical     *)
(* order of the fixed-width ISO-8601 strings.                              *)

PyNone == [k |-> "none", v |-> 0]
\* key not present in the raw record (dict.get gives None)
PyMissing == [k |-> "missing", v |-> 0]
PyStr(n) == [k |-> "str", v |-> n]
PyInt(n) == [k |-> "int", v |-> n]
PyDict(n) == [k |-> "dict", v |-> n]
PyList(n) == [k |-> "list", v |-> n]

SqlNull == [k |-> "null", v |-> 0]
SqlText(n) == [k |-> "text", v |-> n]
SqlJson(n) == [k |-> "json", v |-> n]

\* record.get(key)
Get(value) == IF value.k = "missing" THEN PyNone ELSE value

\* Mutant: a dict or a list is turned into text like a scalar.
convert_value_nojson(value) ==
    IF value.k = "none" THEN SqlNull ELSE SqlText(value.v)

\* str(7) and "7" are the same text
convert_value(value) ==
    IF value.k \in {"dict", "list"} THEN SqlJson(value.v)
    ELSE IF value.k = "none" THEN SqlNull
    ELSE SqlText(value.v)

\* args = tuple(convert_value(record.get(key)) for key in [...])
Args(record) ==
    [service_request_id |-> convert_value(Get(record.service_request_id)),
     requested_datetime |-> convert_value(Get(record.requested_datetime)),
     updated_datetime   |-> convert_value(Get(record.updated_datetime)),
     status_description |-> convert_value(Get(record.status_description))]

arg_list(records) == [i \in 1..Len(records) |-> Args(records[i])]

----------------------------------------------------------------------------
(* The table bronze.sf_311_calls and the two INSERT statements *)

\* inserted_at TIMESTAMPTZ DEFAULT (CURRENT_TIMESTAMP AT TIME ZONE 'Africa/Nairobi')
DefaultInsertedAt(now) == [expr |-> "default", at |-> now]

\* inserted_at = CURRENT_TIMESTAMP  -- Update timestamp on upsert
CurrentTimestamp(now) == [expr |-> "current_timestamp", at |-> now]

Row(args, ts) ==
    [service_request_id |-> args.service_request_id,
     requested_datetime |-> args.requested_datetime,
     updated_datetime   |-> args.updated_datetime,
     status_description |-> args.status_description,
     inserted_at        |-> ts]

HasId(table, id) == \E r \in table : r.service_request_id = id

\* INSERT of one VALUES tuple with no conflicting row
InsertRow(table, args, now) == table \cup {Row(args, DefaultInsertedAt(now))}

\* Mutant: the conflict target is lost and the tuple is appended.
OnConflictDoUpdate_append(table, args, now) ==
    table \cup {Row(args, IF HasId(table, args.service_request_id)
                          THEN CurrentTimestamp(now)
                          ELSE DefaultInsertedAt(now))}

\* ON CONFLICT (service_request_id) DO UPDATE SET <col> = EXCLUDED.<col>, ...
OnConflictDoUpdate(table, args, now) ==
    IF HasId(table, args.service_request_id)
    THEN {r \in table : r.service_request_id # args.service_request_id}
         \cup {Row(args, CurrentTimestamp(now))}
    ELSE InsertRow(table, args, now)

\* Mutant: the skip loader carries the upsert loader's conflict clause.
OnConflictDoNothing_update(table, args, now) ==
    OnConflictDoUpdate(table, args, now)

\* ON CONFLICT (service_request_id) DO NOTHING
OnConflictDoNothing(table, args, now) ==
    IF HasId(table, args.service_request_id)
    THEN table
    ELSE InsertRow(table, args, now)

RECURSIVE ApplyRows(_, _, _, _)
ApplyRows(table, page, policy, now) ==
    IF page = <<>> THEN table
    ELSE ApplyRows(IF policy = "update"
                   THEN OnConflictDoUpdate(table, Head(page), now)
                   ELSE OnConflictDoNothing(table, Head(page), now),
                   Tail(page), policy, now)

\* The errors the server raises for one INSERT statement whatever the
\* connection does: a null primary key (service_request_id TEXT PRIMARY KEY),
\* and, for DO UPDATE only, two VALUES tuples with the same key ("ON CONFLICT
\* DO UPDATE command cannot affect row a second time").
StatementFails(page, policy) ==
    \/ \E i \in 1..Len(page) : page[i].service_request_id = SqlNull
    \/ /\ policy = "update"
       /\ \E i, j \in 1..Len(page) :
             i < j /\ page[i].service_request_id = page[j].service_request_id

NumPages(argl) == (Len(argl) + ExecPageSize - 1) \div ExecPageSize

PageOf(argl, j) ==
    SubSeq(argl, (j - 1) * ExecPageSize + 1,
           IF j * ExecPageSize < Len(argl) THEN j * ExecPageSize ELSE Len(argl))

\* execute_values(cursor, insert_query, arg_list): one INSERT statement per
\* page of ExecPageSize tuples, all inside the connection's open transaction.
\* failAt is the page at which the connection fails (0: never;
\* NumPages + 1: at conn.commit()).  The result is the transaction's view of
\* the table when execute_values returns or raises.
RECURSIVE ExecutePages(_, _, _, _, _, _)
ExecutePages(table, argl, policy, now, failAt, j) ==
    IF j > NumPages(argl) THEN [ok |-> TRUE, table |-> table]
    ELSE IF j = failAt \/ StatementFails(PageOf(argl, j), policy)
    THEN [ok |-> FALSE, table |-> table]
    ELSE ExecutePages(ApplyRows(table, PageOf(argl, j), policy, now),
                      argl, policy, now, failAt, j + 1)

execute_values(table, argl, policy, now, failAt) ==
    ExecutePages(table, argl, policy, now, failAt, 1)

\* Mutant: no conn.rollback(); what the transaction did before the error
\* is committed.
insert_data_norollback(table, records, now, failAt) ==
    LET argl == arg_list(records)
        r == execute_values(table, argl, "update", now, failAt)
    IN  IF r.ok /\ failAt # NumPages(argl) + 1
        THEN [store |-> r.table, outcome |-> "committed"]
        ELSE [store |-> r.table, outcome |-> "raised"]

\* Mutant: a full refresh; the table is emptied before the batch is loaded.
insert_data_truncate(table, records, now, failAt) ==
    LET argl == arg_list(records)
        r == execute_values({}, argl, "update", now, failAt)
    IN  IF r.ok /\ failAt # NumPages(argl) + 1
        THEN [store |-> r.table, outcome |-> "committed"]
        ELSE [store |-> table, outcome |-> "raised"]

\* insert_data of src/scripts/insert_data.py: the upsert loader.
\* try: execute_values; conn.commit()  except psycopg2.Error: conn.rollback(); raise
insert_data(table, records, now, failAt) ==
    LET argl == arg_list(records)
        r == execute_values(table, argl, "update", now, failAt)
    IN  IF r.ok /\ failAt # NumPages(argl) + 1
        THEN [store |-> r.table, outcome |-> "committed"]
        ELSE [store |-> table, outcome |-> "raised"]

\* insert_data of src/insert_data.py: the skip-on-conflict loader.
insert_data_skip(table, records, now, failAt) ==
    LET argl == arg_list(records)
        r == execute_values(table, argl, "nothing", now, failAt)
    IN  IF r.ok /\ failAt # NumPages(argl) + 1
        THEN [store |-> r.table, outcome |-> "committed"]
        ELSE [store |-> table, outcome |-> "raised"]

----------------------------------------------------------------------------
(* The batches handed to the loaders *)

Record(id, req, upd, val) ==
    [service_request_id |-> id, requested_datetime |-> req,
     updated_datetime |-> upd, status_description |-> val]

\* payloads for the non-key columns: requested, updated, status
Payloads ==
    {<<PyStr(1), PyStr(1), PyStr(1)>>,
     <<PyStr(2), PyMissing, PyDict(2)>>}

LoadRecords ==
    {Record(PyStr(i), p[1], p[2], p[3]) : i \in {1, 2}, p \in Payloads}
    \cup {Record(PyMissing, PyStr(1), PyNone, PyInt(1))}

Batches == UNION {[1..n -> LoadRecords] : n \in 0..MaxBatch}

\* what an earlier load (at time 0, by either loader) can have left
InitStores ==
    {insert_data({}, d, 0, 0).store : d \in [1..1 -> LoadRecords]}
    \cup {insert_data_skip({}, d, 0, 0).store : d \in [1..2 -> LoadRecords]}

NoCall == [policy |-> "none", now |-> 0, outcome |-> "none"]


----------------------------------------------------------------------------
(* The remote dataset and the Socrata query of sample_api_data *)

\* identifiers of the remote records when runs are repeated
SyncIds == {1, 2}

\* identifiers of the remote records when one extraction is followed
ExtractIds == {1, 2, 3, 4}

Times == 1..MaxTime

\* Socrata leaves a null field out of the JSON object
RemoteRecords ==
    {Record(PyStr(i), PyStr(q), u, PyStr(1)) :
        i \in SyncIds, q \in Times,
        u \in {PyStr(t) : t \in Times} \cup {PyMissing}}

NoClause == [requested_ge |-> 0, has_updated |-> FALSE, updated_gt |-> 0]

\* where = f'requested_datetime >= "{min_start_str}"'
\* if updated_filter: where += f' AND updated_datetime > "{updated_filter}"'
where_clause(min_start_str, updated_filter) ==
    [requested_ge |-> min_start_str.v,
     has_updated  |-> updated_filter # PyNone,
     updated_gt   |-> IF updated_filter # PyNone THEN updated_filter.v ELSE 0]

\* Mutant: updated_datetime >= in place of >.
Matches_ge(rec, w) ==
    /\ rec.requested_datetime.k = "str"
    /\ rec.requested_datetime.v >= w.requested_ge
    /\ w.has_updated =>
          /\ rec.updated_datetime.k = "str"
          /\ rec.updated_datetime.v >= w.updated_gt

\* SoQL: a comparison with a null field is not true
Matches(rec, w) ==
    /\ rec.requested_datetime.k = "str"
    /\ rec.requested_datetime.v >= w.requested_ge
    /\ w.has_updated =>
          /\ rec.updated_datetime.k = "str"
          /\ rec.updated_datetime.v > w.updated_gt

RECURSIVE InIdOrder(_)
InIdOrder(S) ==
    IF S = {} THEN <<>>
    ELSE LET r == CHOOSE x \in S :
                     \A y \in S : x.service_request_id.v <= y.service_request_id.v
         IN  <<r>> \o InIdOrder(S \ {r})

\* the rows the where clause matches, in the dataset's order
ResultSet(dataset, w) == InIdOrder({rec \in dataset : Matches(rec, w)})

\* client.get(dataset_id, where=where, limit=limit, offset=offset)
client_get(dataset, w, lim, off) ==
    LET rows == ResultSet(dataset, w)
    IN  SubSeq(rows, off + 1,
               IF off + lim < Len(rows) THEN off + lim ELSE Len(rows))

\* Mutant: a full page ends the loop too.
IsLastPage_le(page_results) == Len(page_results) <= limit

\* Mutant: the loop ends on an empty page only.
IsLastPage_empty(page_results) == Len(page_results) = 0

\* if len(page_results) < limit: break
IsLastPage(page_results) == Len(page_results) < limit

\* offset += limit
NextOffset(off) == off + limit

\* Mutant: the handler moves on to the next page.
OnFetchError_skip(off, rows) == [offset |-> off + limit, all_results |-> rows]

\* except Exception: print; time.sleep(10) -- offset and all_results stay
OnFetchError(off, rows) == [offset |-> off, all_results |-> rows]

----------------------------------------------------------------------------
(* main of src/scripts/insert_data.py *)

\* a TEXT column as cursor.fetchone() returns it
Fetchone(v) == IF v = SqlNull THEN PyNone ELSE PyStr(v.v)

\* SELECT MAX(updated_datetime) FROM bronze.sf_311_calls
SelectMaxUpdated(table) ==
    LET S == {r.updated_datetime : r \in table} \ {SqlNull}
    IN  IF S = {} THEN SqlNull
        ELSE CHOOSE m \in S : \A o \in S : o.v <= m.v

\* SELECT MIN(requested_datetime) FROM bronze.sf_311_calls
SelectMinRequested(table) ==
    LET S == {r.requested_datetime : r \in table} \ {SqlNull}
    IN  IF S = {} THEN SqlNull
        ELSE CHOOSE m \in S : \A o \in S : m.v <= o.v

\* min_start_str = f"{args.year}-{args.month:02d}-{args.day:02d}T00:00:00.000"
\* (no check that the day exists)
min_start_str(a) == PyStr(a.date)

\* Mutant: an empty table counts as a historical extension.
is_historical_empty(existing_min, start) ==
    existing_min = PyNone \/ start.v < existing_min.v

\* Mutant: a start equal to the stored minimum counts as an extension.
is_historical_le(existing_min, start) ==
    existing_min # PyNone /\ start.v <= existing_min.v

\* is_historical = existing_min and min_start_str < existing_min
is_historical(existing_min, start) ==
    existing_min # PyNone /\ start.v < existing_min.v

\* Mutant: the filter is set whatever is_historical says.
updated_filter_always(existing_min, max_updated, start) == max_updated

\* if not is_historical: updated_filter = max_updated
updated_filter(existing_min, max_updated, start) ==
    IF ~is_historical(existing_min, start) THEN max_updated ELSE PyNone

\* fetch_type = "historical full" if is_historical else "incremental"
fetch_type(existing_min, start) ==
    IF is_historical(existing_min, start) THEN "historical full"
    ELSE "incremental"

NoWatermarks == [existing_min |-> PyNone, max_updated |-> PyNone]

NoPlan == [fetch_type |-> "none", updated_filter |-> PyNone, where |-> NoClause]

NoArgs == [date |-> 0, valid |-> TRUE]

\* year, month, day: every start date, and one day that does not exist
ArgsSet ==
    {[date |-> t, valid |-> TRUE] : t \in Times}
    \cup {[date |-> 1, valid |-> FALSE]}

Dataset(f) ==
    {Record(PyStr(i), f[i][1], f[i][2], PyStr(1)) :
        i \in {j \in DOMAIN f : f[j] # <<>>}}

\* no run yet, an empty table
NotStarted ==
    /\ store = {}
    /\ clock = 0
    /\ data = <<>>
    /\ call = NoCall
    /\ before = {}
    /\ repeated = FALSE
    /\ pc = "idle"
    /\ conn = "none"
    /\ closes = 0
    /\ argv = NoArgs
    /\ watermarks = NoWatermarks
    /\ plan = NoPlan
    /\ offset = 0
    /\ all_results = <<>>
    /\ fetched = <<>>
    /\ failed = FALSE
    /\ result = "none"
    /\ nruns = 0
    /\ nchanges = 0

\* an empty table and a remote dataset that fills as time goes
Init ==
    /\ NotStarted
    /\ remote = {}

\* records that differ in requested_datetime only
InitExtract ==
    /\ NotStarted
    /\ \E f \in [ExtractIds -> {<<PyStr(q), PyMissing>> : q \in Times}
                                \cup {<<>>}] : remote = Dataset(f)

\* finally: if conn: conn.close(), on a connection main holds
Finally_leak(c, n) == [conn |-> c, closes |-> n]

Finally(c, n) ==
    IF c = "open" THEN [conn |-> "closed", closes |-> n + 1]
                  ELSE [conn |-> c, closes |-> n]

\* what every start of main resets; a run repeats the one before it when
\* that run has completed its load and this one has the same command line
Started(a) ==
    /\ pc \in {"idle", "done"}
    /\ nruns < MaxRuns
    /\ nruns' = nruns + 1
    /\ argv' = a
    /\ data' = <<>>
    /\ call' = NoCall
    /\ before' = store
    /\ repeated' = (/\ pc = "done"
                    /\ call.outcome = "committed"
                    /\ argv = a)
    /\ offset' = 0
    /\ all_results' = <<>>
    /\ fetched' = <<>>
    /\ failed' = FALSE
    /\ UNCHANGED <<store, clock, remote, nchanges>>

\* conn = connect_to_db() raises: it is called outside main's try
MainConnectFails ==
    \E a \in ArgsSet :
        /\ Started(a)
        /\ conn' = "none"
        /\ closes' = 0
        /\ watermarks' = NoWatermarks
        /\ plan' = NoPlan
        /\ result' = "raised"
        /\ pc' = "done"

\* create_table or one of the two SELECTs raises: except Exception prints
\* and rolls back, finally closes, and main returns
MainSetupFails ==
    \E a \in ArgsSet :
        /\ Started(a)
        /\ conn' = Finally("open", 0).conn
        /\ closes' = Finally("open", 0).closes
        /\ watermarks' = NoWatermarks
        /\ plan' = NoPlan
        /\ result' = "returned"
        /\ pc' = "done"

\* main from parse_args to the call of sample_api_data, which starts with
\* offset = 0 and all_results = []
MainPlan ==
    \E a \in ArgsSet :
        LET max_updated == Fetchone(SelectMaxUpdated(store))
            existing_min == Fetchone(SelectMinRequested(store))
            filter == updated_filter(existing_min, max_updated, min_start_str(a))
        IN
        /\ Started(a)
        /\ conn' = "open"
        /\ closes' = 0
        /\ watermarks' = [existing_min |-> existing_min,
                          max_updated |-> max_updated]
        /\ plan' = [fetch_type |-> fetch_type(existing_min, min_start_str(a)),
                    updated_filter |-> filter,
                    where |-> where_clause(min_start_str(a), filter)]
        /\ result' = "running"
        /\ pc' = "fetch"

\* Mutant: every page is loaded as soon as it has arrived.
FetchPage_stream ==
    /\ pc = "fetch"
    /\ argv.valid
    /\ LET page_results == client_get(remote, plan.where, limit, offset) IN
       /\ all_results' = all_results \o page_results
       /\ fetched' = Append(fetched, offset)
       /\ store' = insert_data(store, page_results, clock, 0).store
       /\ IF Len(page_results) < limit
          THEN /\ pc' = "load"
               /\ data' = all_results \o page_results
               /\ offset' = offset
          ELSE /\ pc' = "fetch"
               /\ data' = data
               /\ offset' = offset + limit
    /\ UNCHANGED <<clock, call, before, repeated, remote, conn, closes, argv,
                   watermarks, plan, failed, result, nruns, nchanges>>

\* one turn of sample_api_data's loop in which client.get returns a page;
\* the API rejects a where clause whose date does not exist
FetchPage ==
    /\ pc = "fetch"
    /\ argv.valid
    /\ LET page_results == client_get(remote, plan.where, limit, offset) IN
       /\ all_results' = all_results \o page_results
       /\ fetched' = Append(fetched, offset)
       /\ IF IsLastPage(page_results)
          THEN /\ pc' = "load"
               /\ data' = all_results \o page_results
               /\ offset' = offset
          ELSE /\ pc' = "fetch"
               /\ data' = data
               /\ offset' = NextOffset(offset)
    /\ UNCHANGED <<store, clock, call, before, repeated, remote, conn, closes,
                   argv, watermarks, plan, failed, result, nruns, nchanges>>

\* one turn of the loop in which client.get raises
FetchError ==
    /\ pc = "fetch"
    /\ failed' = TRUE
    /\ offset' = OnFetchError(offset, all_results).offset
    /\ all_results' = OnFetchError(offset, all_results).all_results
    /\ UNCHANGED <<loadvars, remote, pc, conn, closes, argv, watermarks,
                   plan, fetched, result, nruns, nchanges>>

\* insert_data(conn, data); conn.commit(); and the except and finally
\* clauses: a psycopg2.Error raised by insert_data is printed, not re-raised.
\* When the failure is the environment's (the connection is lost, say),
\* conn.rollback() in the except clause may raise in its turn, and that
\* error leaves main after the finally clause.
\* The record of the extraction (offset, all_results, fetched, failed) is
\* dropped here: data holds what sample_api_data returned.
MainLoad ==
    /\ pc = "load"
    /\ \E failAt \in 0..(NumPages(data) + 1) :
          LET r == insert_data(store, data, clock + 1, failAt) IN
          /\ store' = r.store
          /\ call' = [policy |-> "update", now |-> clock + 1,
                      outcome |-> r.outcome]
          /\ result' \in IF r.outcome = "raised" /\ failAt > 0
                          THEN {"returned", "raised"}
                          ELSE {"returned"}
    /\ clock' = clock + 1
    /\ before' = store
    /\ conn' = Finally(conn, closes).conn
    /\ closes' = Finally(conn, closes).closes
    /\ pc' = "done"
    /\ offset' = 0
    /\ all_results' = <<>>
    /\ fetched' = <<>>
    /\ failed' = FALSE
    /\ UNCHANGED <<data, repeated, remote, argv, watermarks, plan, nruns,
                   nchanges>>

\* the process of the last run is gone, and its variables with it
Exited ==
    /\ pc' = "idle"
    /\ conn' = "none"
    /\ closes' = 0
    /\ argv' = NoArgs
    /\ watermarks' = NoWatermarks
    /\ plan' = NoPlan
    /\ data' = <<>>
    /\ call' = NoCall
    /\ before' = store
    /\ offset' = 0
    /\ all_results' = <<>>
    /\ fetched' = <<>>
    /\ failed' = FALSE
    /\ result' = "none"
    /\ repeated' = FALSE
    /\ UNCHANGED <<store, clock, nruns>>

\* between runs the remote dataset gains a record; an identifier is not
\* given to another request, so a record that comes back after it was
\* loaded has the requested_datetime the store holds for it
RemoteInsert ==
    /\ pc \in {"idle", "done"}
    /\ nchanges < MaxChanges
    /\ \E rec \in RemoteRecords :
          /\ \A r \in remote :
                r.service_request_id # rec.service_request_id
          /\ \A r \in store :
                r.service_request_id = Args(rec).service_request_id =>
                    r.requested_datetime = Args(rec).requested_datetime
          /\ remote' = remote \cup {rec}
    /\ nchanges' = nchanges + 1
    /\ Exited

\* between runs a remote record changes: its updated_datetime takes any
\* other value, its identifier and requested_datetime stay
RemoteUpdate ==
    /\ pc \in {"idle", "done"}
    /\ nchanges < MaxChanges
    /\ \E old \in remote : \E rec \in RemoteRecords \ {old} :
          /\ rec.service_request_id = old.service_request_id
          /\ rec.requested_datetime = old.requested_datetime
          /\ remote' = (remote \ {old}) \cup {rec}
    /\ nchanges' = nchanges + 1
    /\ Exited

\* between runs a record disappears from the remote dataset
RemoteDelete ==
    /\ pc \in {"idle", "done"}
    /\ nchanges < MaxChanges
    /\ \E rec \in remote : remote' = remote \ {rec}
    /\ nchanges' = nchanges + 1
    /\ Exited

Next ==
    \/ MainConnectFails
    \/ MainSetupFails
    \/ MainPlan
    \/ FetchPage
    \/ FetchError
    \/ MainLoad
    \/ RemoteInsert
    \/ RemoteUpdate
    \/ RemoteDelete

Spec == Init /\ [][Next]_vars

\* between runs a remote record is touched: its updated_datetime is set
\* for the first time or moves to a later time
RemoteAdvance ==
    /\ RemoteUpdate
    /\ \A old \in remote \ remote' : \A rec \in remote' \ remote :
          /\ rec.updated_datetime.k = "str"
          /\ old.updated_datetime.k = "str" =>
                rec.updated_datetime.v > old.updated_datetime.v

\* runs over a remote dataset that only grows and whose records only move
\* forward in updated_datetime
NextForward ==
    \/ MainConnectFails
    \/ MainSetupFails
    \/ MainPlan
    \/ FetchPage
    \/ FetchError
    \/ MainLoad
    \/ RemoteInsert
    \/ RemoteAdvance

SpecForward == Init /\ [][NextForward]_vars

\* runs over a remote dataset that stays as it is
NextExtract ==
    \/ MainPlan
    \/ FetchPage
    \/ FetchError
    \/ MainLoad

SpecExtract == InitExtract /\ [][NextExtract]_vars

\* any number of records up to four, all requested at the first time
InitExtractFair ==
    /\ NotStarted
    /\ \E S \in SUBSET ExtractIds :
          remote = {Record(PyStr(i), PyStr(1), PyMissing, PyStr(1)) : i \in S}

\* runs in which a page request that keeps being repeated succeeds in the
\* end: the loop takes its next turn as long as it has one, and the failures
\* of one request are finitely many
SpecExtractFair ==
    InitExtractFair /\ [][NextExtract]_vars /\ WF_vars(FetchPage)

----------------------------------------------------------------------------
(* Calls of the two loaders on their own, on a connection that stays open *)

InitLoad ==
    /\ store \in InitStores
    /\ clock = 0
    /\ data \in Batches
    /\ call = NoCall
    /\ before = store
    /\ repeated = FALSE
    /\ remote = {}
    /\ pc = "idle"
    /\ conn = "open"
    /\ closes = 0
    /\ argv = NoArgs
    /\ watermarks = NoWatermarks
    /\ plan = NoPlan
    /\ offset = 0
    /\ all_results = <<>>
    /\ fetched = <<>>
    /\ failed = FALSE
    /\ result = "none"
    /\ nruns = 0
    /\ nchanges = 0

InsertDataUpsert ==
    \E failAt \in 0..(NumPages(data) + 1) :
        LET r == insert_data(store, data, clock + 1, failAt) IN
        /\ clock < MaxClock
        /\ clock' = clock + 1
        /\ store' = r.store
        /\ before' = store
        /\ call' = [policy |-> "update", now |-> clock + 1,
                    outcome |-> r.outcome]
        /\ repeated' = (/\ call.policy = "update"
                        /\ call.outcome = "committed"
                        /\ r.outcome = "committed")
        /\ UNCHANGED <<data, runvars>>

InsertDataSkip ==
    \E failAt \in 0..(NumPages(data) + 1) :
        LET r == insert_data_skip(store, data, clock + 1, failAt) IN
        /\ clock < MaxClock
        /\ clock' = clock + 1
        /\ store' = r.store
        /\ before' = store
        /\ call' = [policy |-> "nothing", now |-> clock + 1,
                    outcome |-> r.outcome]
        /\ repeated' = (/\ call.policy = "nothing"
                        /\ call.outcome = "committed"
                        /\ r.outcome = "committed")
        /\ UNCHANGED <<data, runvars>>

NextLoad == InsertDataUpsert \/ InsertDataSkip

SpecLoad == InitLoad /\ [][NextLoad]_vars

----------------------------------------------------------------------------
(* Claims about the loader (SpecLoad) *)

Ids(table) == {r.service_request_id : r \in table}

RowsOf(table, id) == {r \in table : r.service_request_id = id}

\* a row without its last-touched timestamp
Columns(r) ==
    [service_request_id |-> r.service_request_id,
     requested_datetime |-> r.requested_datetime,
     updated_datetime   |-> r.updated_datetime,
     status_description |-> r.status_description]

Content(table) == {Columns(r) : r \in table}

\* positions of the batch's records that carry identifier id
Positions(id) ==
    {i \in 1..Len(data) : Args(data[i]).service_request_id = id}

LastOf(id) == CHOOSE i \in Positions(id) : \A j \in Positions(id) : j <= i

FirstOf(id) == CHOOSE i \in Positions(id) : \A j \in Positions(id) : i <= j

\* C1: after any sequence of loader calls (committed or failed, skip or
\* overwrite policy, batches that repeat stored identifiers) the store
\* holds at most one row per service_request_id.
C1_OneRowPerId ==
    \A r1, r2 \in store :
        r1.service_request_id = r2.service_request_id => r1 = r2

\* a committed load whose batch repeats an identifier that was stored
C1_Witness ==
    /\ call.outcome = "committed"
    /\ \E i \in 1..Len(data) :
          /\ HasId(before, Args(data[i]).service_request_id)
          /\ Args(data[i]) \notin Content(before)
    /\ store # before

\* C8 as stated: a second run of the same loader with the same batch
\* leaves the store content exactly as the first run left it.
C8_Original == repeated => store = before

\* C8 amended: the second run changes nothing but, under the overwrite
\* policy, the last-touched timestamp of the rows whose identifiers are in
\* the batch, which it sets to the time of the second run.
C8_Idempotent ==
    repeated =>
        /\ call.policy = "nothing" => store = before
        /\ call.policy = "update" =>
              /\ Content(store) = Content(before)
              /\ \A r \in store :
                    IF Positions(r.service_request_id) = {}
                    THEN r \in before
                    ELSE r.inserted_at = CurrentTimestamp(call.now)

\* two committed runs of one loader with one non-empty batch
C8_Witness ==
    /\ repeated
    /\ data # <<>>
    /\ store # {}

\* C9: under the overwrite policy, a committed load of a record whose
\* identifier was stored leaves exactly one row for it, every non-key
\* column holding the value of the (last) record of this load, a field
\* missing from it being null, and inserted_at the time of this load.
C9_UpsertMerge ==
    (call.policy = "update" /\ call.outcome = "committed") =>
        \A id \in Ids(before) :
            Positions(id) # {} =>
                RowsOf(store, id) =
                    {Row(Args(data[LastOf(id)]), CurrentTimestamp(call.now))}

\* a stored row is overwritten by a record with other values, one of them
\* missing from the record
C9_Witness ==
    /\ call.policy = "update"
    /\ call.outcome = "committed"
    /\ \E old \in before : \E i \in 1..Len(data) :
          /\ Args(data[i]).service_request_id = old.service_request_id
          /\ old.updated_datetime # SqlNull
          /\ data[i].updated_datetime = PyMissing
          /\ \E new \in store :
                /\ new.service_request_id = old.service_request_id
                /\ new.updated_datetime = SqlNull
                /\ new.status_description # old.status_description

\* every record of the batch has taken effect on the store
Effected ==
    \A i \in 1..Len(data) :
        LET id == Args(data[i]).service_request_id IN
        IF call.policy = "update"
        THEN RowsOf(store, id) =
                 {Row(Args(data[LastOf(id)]),
                      IF HasId(before, id) \/ Cardinality(Positions(id)) > 1
                      THEN CurrentTimestamp(call.now)
                      ELSE DefaultInsertedAt(call.now))}
        ELSE IF HasId(before, id)
        THEN RowsOf(store, id) = RowsOf(before, id)
        ELSE RowsOf(store, id) =
                 {Row(Args(data[FirstOf(id)]), DefaultInsertedAt(call.now))}

\* C10: a call of insert_data either commits the effect of every record of
\* the batch, or raises and leaves the committed store as it was before the
\* call; a part of a batch is never committed.
C10_AtomicBatch ==
    call # NoCall =>
        \/ /\ call.outcome = "committed"
           /\ Effected
           /\ \A r \in store : Positions(r.service_request_id) = {} => r \in before
           /\ \A r \in before : HasId(store, r.service_request_id)
        \/ /\ call.outcome = "raised"
           /\ store = before

\* the batch fails in its second INSERT statement, after a first statement
\* that inserted or changed rows inside the transaction
C10_Witness ==
    /\ call.outcome = "raised"
    /\ Len(data) > ExecPageSize
    /\ ~StatementFails(PageOf(arg_list(data), 1), call.policy)
    /\ ApplyRows(before, PageOf(arg_list(data), 1), call.policy, call.now)
          # before
    /\ store = before

----------------------------------------------------------------------------
(* Claims about the window of a run (Spec) *)

\* main has planned this run and has not loaded yet: the table is as the
\* watermark queries saw it
Planned == pc \in {"fetch", "load"}

StoredRequested ==
    {r.requested_datetime.v :
        r \in {x \in store : x.requested_datetime # SqlNull}}

StoredUpdated ==
    {r.updated_datetime.v :
        r \in {x \in store : x.updated_datetime # SqlNull}}

\* C2: when a run has completed, every remote record whose
\* requested_datetime is not before the run's start date is in the store
\* with the remote's field values, the remote dataset having changed only
\* between runs.
C2_NoRecordLost ==
    (pc = "done" /\ call.outcome = "committed") =>
        \A rec \in remote :
            rec.requested_datetime.v >= argv.date =>
                Args(rec) \in Content(store)

C4_Incremental ==
    (Planned /\ \E q \in StoredRequested : q <= argv.date) =>
        /\ plan.fetch_type = "incremental"
        /\ plan.where.requested_ge = argv.date
        /\ IF StoredUpdated = {}
           THEN /\ ~plan.where.has_updated
                /\ watermarks.max_updated = PyNone
           ELSE /\ plan.where.has_updated
                /\ plan.where.updated_gt \in StoredUpdated
                /\ \A u \in StoredUpdated : u <= plan.where.updated_gt
                /\ watermarks.max_updated = PyStr(plan.where.updated_gt)

\* an incremental run whose start date is after the stored minimum and
\* whose where clause carries the stored maximum
C4_Witness ==
    /\ pc = "fetch"
    /\ \E q \in StoredRequested : q < argv.date
    /\ StoredUpdated # {}
    /\ plan.where.has_updated
    /\ plan.fetch_type = "incremental"

\* C5: on a table whose least requested_datetime is after the start date
\* the run is planned as historical and the where clause is only
\* requested_datetime >= start, also when a stored updated_datetime is set.
C5_Historical ==
    (Planned /\ StoredRequested # {}
             /\ \A q \in StoredRequested : argv.date < q) =>
        /\ plan.fetch_type = "historical full"
        /\ plan.where.requested_ge = argv.date
        /\ ~plan.where.has_updated
        /\ plan.updated_filter = PyNone

\* a historical run on a table that has a greatest updated_datetime
C5_Witness ==
    /\ pc = "fetch"
    /\ StoredRequested # {}
    /\ \A q \in StoredRequested : argv.date < q
    /\ StoredUpdated # {}
    /\ plan.fetch_type = "historical full"

----------------------------------------------------------------------------
(* Claims about the extractor (SpecExtract) *)

Matching == {rec \in remote : Matches(rec, plan.where)}

\* position by position, the offsets 0, limit, 2 * limit, ...
OffsetsInOrder(offs) == \A i \in 1..Len(offs) : offs[i] = (i - 1) * limit

\* every record of S is at exactly one position of rows, and nothing else is
EachOnce(rows, S) ==
    /\ Len(rows) = Cardinality(S)
    /\ \A rec \in S : \E i \in 1..Len(rows) : rows[i] = rec

\* C6: over a remote result set of limit * k + r records (0 <= r < limit)
\* an extraction in which no request fails ends after exactly k + 1
\* requests, at the offsets 0, limit, ..., k * limit, and returns every
\* matching record exactly once.
C6_Pagination ==
    (pc = "load" /\ ~failed) =>
        /\ Len(fetched) = (Cardinality(Matching) \div limit) + 1
        /\ OffsetsInOrder(fetched)
        /\ EachOnce(data, Matching)

\* r = 0 and k = 2: the third page is empty
C6_Witness ==
    /\ pc = "load"
    /\ ~failed
    /\ Cardinality(Matching) = 2 * limit
    /\ fetched = <<0, limit, 2 * limit>>

\* C7: a failed page request leaves the run going, and once a request has
\* failed the pages fetched are still the pages 0, limit, ... in order, the
\* next request is for the first offset not fetched and may fail again
\* (there is no last retry), the rows accumulated are the rows before that
\* offset, and the collection returned is the one a failure-free extraction
\* returns.
C7_RetrySamePage ==
    failed =>
        /\ pc \in {"fetch", "load"}
        /\ result = "running"
        /\ OffsetsInOrder(fetched)
        /\ pc = "fetch" =>
              /\ ENABLED FetchError
              /\ offset = Len(fetched) * limit
              /\ all_results = SubSeq(ResultSet(remote, plan.where), 1, offset)
        /\ pc = "load" =>
              /\ Len(fetched) = (Cardinality(Matching) \div limit) + 1
              /\ EachOnce(data, Matching)

\* an extraction of more than one page ends after a request failed
C7_Witness ==
    /\ pc = "load"
    /\ failed
    /\ Len(fetched) > 1
    /\ Len(data) > limit

----------------------------------------------------------------------------
(* Claims about the errors of a run (Spec) *)

\* C11: a run in which insert_data raised (its batch rolled back) has
\* ended, and ended by raising the error to its invoker, not by returning
\* as a successful run does.
C11_ErrorEscapes ==
    (pc = "done" /\ call.outcome = "raised") => result = "raised"

\* C12: a run whose start date is not a date of the calendar has no
\* connection, has read no watermark, and is never in the extraction loop
\* nor in the load.
C12_FailFast ==
    ~argv.valid =>
        /\ conn = "none"
        /\ watermarks = NoWatermarks
        /\ pc \notin {"fetch", "load"}
        /\ ~failed

\* C13: a run that has ended either never had the connection (connecting
\* failed) or has closed it, with one call of close; the connection is open
\* only while the run is between its plan and the end of its load, and no
\* run closes twice.
C13_ConnectionClosed ==
    /\ closes \in {0, 1}
    /\ conn = "open" => (pc \in {"fetch", "load"} /\ closes = 0)
    /\ pc = "done" =>
          \/ conn = "closed" /\ closes = 1
          \/ /\ conn = "none"
             /\ closes = 0
             /\ result = "raised"
             /\ plan = NoPlan

\* a run whose load failed has ended with its connection closed
C13_Witness ==
    /\ pc = "done"
    /\ plan # NoPlan
    /\ call.outcome = "raised"
    /\ conn = "closed"
    /\ closes = 1

----------------------------------------------------------------------------
(* Claims about repeated runs (Spec) *)

\* C14 as stated: a run that repeats the run completed just before it,
\* with the same start date and over an unchanged remote dataset, leaves
\* the store exactly as it found it.
C14_Original == (pc = "done" /\ repeated) => store = before

\* C14 amended: the repeating run leaves the same rows with the same values
\* in every column but inserted_at; planned with an updated_datetime clause
\* it fetches nothing and changes nothing; planned without one (historical
\* again, or no updated_datetime stored) it sets inserted_at of the rows it
\* fetched again to the time of its load and leaves the other rows alone.
C14_Rerun ==
    (pc = "done" /\ repeated) =>
        /\ Content(store) = Content(before)
        /\ plan.where.has_updated => (data = <<>> /\ store = before)
        /\ \A r \in store :
              IF Positions(r.service_request_id) = {}
                    \/ call.outcome # "committed"
              THEN r \in before
              ELSE r.inserted_at = CurrentTimestamp(call.now)

\* a run chosen historical for the second time in a row has loaded again
\* the rows the run before it loaded
C14_Witness ==
    /\ pc = "done"
    /\ repeated
    /\ plan.fetch_type = "historical full"
    /\ call.outcome = "committed"
    /\ store # before
    /\ store # {}

----------------------------------------------------------------------------
(* Claims about the end of the extraction (SpecExtractFair) *)

\* the extraction has returned: all pages but the last were full, the last
\* one was short, and no request can follow it
EndedOnShortPage ==
    /\ fetched # <<>>
    /\ Len(data) >= (Len(fetched) - 1) * limit
    /\ Len(data) < Len(fetched) * limit
    /\ ~ENABLED FetchPage
    /\ ~ENABLED FetchError

\* C15: the loop ends at the first page shorter than limit and sends no
\* request after it; while it runs every page so far was full; a turn in
\* which no page arrives (the request failed) leaves the loop running, so
\* requests that fail forever never end it; and when requests that are
\* repeated succeed in the end, the extraction of a valid window ends.
C15_Termination ==
    /\ [](pc = "load" => EndedOnShortPage)
    /\ [](pc = "fetch" => Len(all_results) = Len(fetched) * limit)
    /\ [][(pc = "fetch" /\ fetched' = fetched) => pc' = "fetch"]_vars
    /\ (pc = "fetch" /\ argv.valid) ~> (pc = "load")

\* an extraction ended on its second page, one record long, after a
\* request had failed
C15_Witness ==
    /\ pc = "load"
    /\ failed
    /\ Len(fetched) = 2
    /\ Len(data) = limit + 1

----------------------------------------------------------------------------
(* Claims about the skip-on-conflict loader (SpecLoad) *)

\* identifiers of the batch's records
BatchIds == {Args(data[i]).service_request_id : i \in 1..Len(data)}

\* C16: a committed load under ON CONFLICT DO NOTHING leaves every stored
\* row as it was, inserted_at included, whatever the batch says about its
\* identifier, and stores for every identifier that was not stored the
\* (first) record of the batch that carries it, and nothing else.
C16_SkipKeepsStored ==
    (call.policy = "nothing" /\ call.outcome = "committed") =>
        /\ before \subseteq store
        /\ Ids(store) = Ids(before) \cup BatchIds
        /\ \A id \in BatchIds \ Ids(before) :
              RowsOf(store, id) =
                  {Row(Args(data[FirstOf(id)]), DefaultInsertedAt(call.now))}

\* one record of the batch has other values than the stored row of its
\* identifier, another has an identifier that was not stored
C16_Witness ==
    /\ call.policy = "nothing"
    /\ call.outcome = "committed"
    /\ \E i \in 1..Len(data) :
          /\ HasId(before, Args(data[i]).service_request_id)
          /\ Args(data[i]) \notin Content(before)
    /\ BatchIds \ Ids(before) # {}

----------------------------------------------------------------------------
(* Claims about what the runs keep (Spec) *)

\* identifiers of the remote dataset, as the loader would store them
RemoteIds == {Args(rec).service_request_id : rec \in remote}

\* C17: no step of any run, committed or failed, historical or
\* incremental, and no change of the remote dataset takes an identifier
\* out of the store.
C17_NoRowDeleted == [][Ids(store) \subseteq Ids(store')]_vars

\* a run has completed its load over a remote dataset that has lost a
\* record of its window, and the row of that record is still stored
C17_Witness ==
    /\ pc = "done"
    /\ call.outcome = "committed"
    /\ \E r \in store :
          /\ r.service_request_id \notin RemoteIds
          /\ r.requested_datetime.k = "text"
          /\ r.requested_datetime.v >= plan.where.requested_ge

\* the watermarks main would read from the store as it is now
WatermarksOf(table) ==
    [existing_min |-> Fetchone(SelectMinRequested(table)),
     max_updated  |-> Fetchone(SelectMaxUpdated(table))]

\* C18: while a run is in its extraction the connection is open, both
\* watermarks have been read (they are those of the store as it still is),
\* nothing has been handed to the loader and the store is as the run found
\* it; a page request adds one page, at the offset after the pages before
\* it; and the store changes only in the load, which is given the whole
\* result set the extraction has returned.
C18_StepsOrdered ==
    /\ [](pc = "fetch" =>
            /\ conn = "open"
            /\ watermarks = WatermarksOf(store)
            /\ call = NoCall
            /\ data = <<>>
            /\ store = before)
    /\ [][fetched' # fetched /\ pc = "fetch" =>
            fetched' = Append(fetched, Len(fetched) * limit)]_vars
    /\ [][store' # store =>
            /\ pc = "load"
            /\ pc' = "done"
            /\ data = ResultSet(remote, plan.where)
            /\ store' = insert_data(store, data, clock', 0).store]_vars

\* in the middle of an extraction that has had a failed request: a full
\* page has arrived and none of its records is in the store
C18_Witness ==
    /\ pc = "fetch"
    /\ failed
    /\ Len(all_results) = limit
    /\ \A i \in 1..Len(all_results) :
          ~HasId(store, Args(all_results[i]).service_request_id)

----------------------------------------------------------------------------
(* Claims about runs over a remote dataset that moves forward (SpecForward) *)

\* a MAX(updated_datetime) and a later one: never from a time to NULL or to
\* an earlier time
NotBefore(earlier, later) ==
    earlier # SqlNull => (later # SqlNull /\ later.v >= earlier.v)

\* the records a run has written have an updated_datetime after the time t
AllUpdatedAfter(t) ==
    \A i \in 1..Len(data) :
        /\ Args(data[i]).updated_datetime # SqlNull
        /\ t # PyNone => Args(data[i]).updated_datetime.v > t.v

\* C19 as stated: whatever a run labelled incremental has written has an
\* updated_datetime, and one after the max_updated the run has read.
C19_Original ==
    (/\ pc = "done"
     /\ call.outcome = "committed"
     /\ plan.fetch_type = "incremental") =>
        AllUpdatedAfter(watermarks.max_updated)

\* C19 amended: MAX(updated_datetime) of the store is never less after a
\* step than before it, and the records written by an incremental run that
\* has read a max_updated (the MAX of the store it started on) all have an
\* updated_datetime after it; an incremental run that has read none writes
\* whatever its window holds.
C19_Forward ==
    /\ NotBefore(SelectMaxUpdated(before), SelectMaxUpdated(store))
    /\ (/\ pc = "done"
        /\ call.outcome = "committed"
        /\ plan.fetch_type = "incremental"
        /\ watermarks.max_updated # PyNone) =>
            /\ watermarks.max_updated = Fetchone(SelectMaxUpdated(before))
            /\ AllUpdatedAfter(watermarks.max_updated)
            /\ \A r \in store \ before :
                  Positions(r.service_request_id) # {}

\* an incremental run that has read a max_updated has written a record and
\* moved MAX(updated_datetime) forward
C19_Witness ==
    /\ pc = "done"
    /\ call.outcome = "committed"
    /\ plan.fetch_type = "incremental"
    /\ watermarks.max_updated # PyNone
    /\ data # <<>>
    /\ SelectMaxUpdated(store).v > SelectMaxUpdated(before).v

----------------------------------------------------------------------------
(* Claims about the normalisation of field values (SpecLoad) *)

\* the values a field of a raw record can hold, and no value at all
RawValues ==
    {PyNone, PyMissing}
    \cup {PyStr(n) : n \in Times} \cup {PyInt(n) : n \in Times}
    \cup {PyDict(n) : n \in Times} \cup {PyList(n) : n \in Times}

\* the parameters of the INSERT statement
SqlValues ==
    {SqlNull} \cup {SqlText(n) : n \in Times} \cup {SqlJson(n) : n \in Times}

Fields ==
    {"service_request_id", "requested_datetime", "updated_datetime",
     "status_description"}

\* what the field of a record is normalised to
Normalised(value) == convert_value(Get(value))

\* a map or a sequence is tagged as structured, null and a missing field
\* are null, anything else is its text
AsClaimed(value) ==
    /\ Normalised(value) \in SqlValues
    /\ value.k \in {"dict", "list"} => Normalised(value) = SqlJson(value.v)
    /\ value.k \in {"none", "missing"} => Normalised(value) = SqlNull
    /\ value.k \in {"str", "int"} => Normalised(value) = SqlText(value.v)

\* C20: every value a field can hold is normalised to a parameter of the
\* statement as the claim says, and so is every field of every record of the
\* batch the loader is given, in the tuple the loader builds for it.
C20_ConvertValue ==
    /\ \A value \in RawValues : AsClaimed(value)
    /\ \A i \in 1..Len(data) : \A key \in Fields :
          /\ data[i][key] \in RawValues
          /\ AsClaimed(data[i][key])
          /\ arg_list(data)[i][key] = Normalised(data[i][key])

\* the loader has been called with a batch that holds a map, a null, a
\* missing field, a number and a text
C20_Witness ==
    /\ call # NoCall
    /\ {"dict", "none", "missing", "int", "str"} \subseteq
          {data[i][key].k : i \in 1..Len(data), key \in Fields}

====
